---------------------------- MODULE Spec2Model ----------------------------
(***************************************************************************)
(* Model of scripts/fix-all-logger-signatures.py.                          *)
(*                                                                         *)
(* The script reads one file, applies one regular-expression substitution  *)
(* to its whole text and writes the result back.  Text is modelled as a    *)
(* sequence of characters, so that the regular expression is evaluated     *)
(* character by character, as the re module does.  A character is the      *)
(* one-character string that holds it or, for a character no string of a   *)
(* module can hold, the token "U+" and its code point.                     *)
(*                                                                         *)
(* Two specifications:                                                     *)
(*   SpecSub  the substitution as a pure function: an input text is drawn  *)
(*            from a bounded family and re.sub is applied once and twice;  *)
(*   Spec     one run of the program: arguments, read, substitute, write,  *)
(*            print, with the I/O failures the platform can produce.       *)
(***************************************************************************)
EXTENDS Naturals, Sequences, FiniteSets

VARIABLES
    parts,          \* SpecSub: the segments the input text is built from
    text,           \* SpecSub: the input text
    out,            \* SpecSub: re.sub applied once
    out2,           \* SpecSub: re.sub applied to out
    phase,          \* SpecSub: "input", "once", "twice" ("off" under Spec)
    pc,             \* Spec: position in the script ("off" under SpecSub)
    argv,           \* Spec: sys.argv
    fsMode,         \* Spec: state of the path on disk
    linesep,        \* Spec: os.linesep of the platform
    file0,          \* Spec: bytes of the file before the run
    file,           \* Spec: bytes of the file now
    file_path,      \* Spec: the script's file_path
    content,        \* Spec: the script's content
    content_fixed,  \* Spec: the script's content_fixed
    stdout,         \* Spec: lines printed
    exit_code,      \* Spec: <<status>> once exited, <<>> while running
    io              \* Spec: the file operations called, in order

subVars == <<parts, text, out, out2, phase>>
runVars == <<pc, argv, fsMode, linesep, file0, file, file_path, content,
             content_fixed, stdout, exit_code, io>>
vars == <<parts, text, out, out2, phase, pc, argv, fsMode, linesep, file0,
          file, file_path, content, content_fixed, stdout, exit_code, io>>

---------------------------------------------------------------------------
(* Bounds of the model. *)

\* Number of segments an input text of SpecSub is built from.
MaxSegs == 2

---------------------------------------------------------------------------
(* Characters and literals of the pattern and the replacement. *)

\* Mutant: [ \t] in place of \s, which stops at a line break.
IsBlank(c) == c \in {" ", "\t"}

\* The whitespace characters that have no escape in a string: U+000B,
\* U+001C to U+001F, U+0085, U+00A0 and U+1680, each written as itself.
VTab == ""
FileSep == ""
GroupSep == ""
RecordSep == ""
UnitSep == ""
NextLine == ""
NoBreakSpace == " "
OghamSpace == " "

\* The whitespace characters that no string of a module can hold, each as
\* the token of its code point: U+2000 to U+200A, U+2028, U+2029, U+202F,
\* U+205F and U+3000.
EmSpace == "U+2003"
WideSpaces ==
    {"U+2000", "U+2001", "U+2002", EmSpace, "U+2004", "U+2005", "U+2006",
     "U+2007", "U+2008", "U+2009", "U+200A", "U+2028", "U+2029", "U+202F",
     "U+205F", "U+3000"}

\* \s of the re module for a str pattern: the characters str.isspace()
\* holds of.
IsSpace(c) ==
    c \in {" ", "\t", "\n", "\r", "\f", VTab, FileSep, GroupSep, RecordSep,
           UnitSep, NextLine, NoBreakSpace, OghamSpace} \cup WideSpaces

LoggerDot == <<"l","o","g","g","e","r",".">>
Warn == <<"w","a","r","n">>
Info == <<"i","n","f","o">>
ErrorComma == <<"e","r","r","o","r",",">>
ComponentColon == <<"c","o","m","p","o","n","e","n","t",":">>

\* lit occurs in t at position i.
StartsWith(t, i, lit) ==
    /\ i >= 1
    /\ i + Len(lit) - 1 <= Len(t)
    /\ \A k \in 1..Len(lit) : t[i + k - 1] = lit[k]

\* \s* is greedy: the first position at or after i that holds no space,
\* Len(t) + 1 if there is none.
SkipSpace(t, i) ==
    IF i > Len(t) THEN i
    ELSE CHOOSE j \in i..(Len(t) + 1) :
            /\ j = Len(t) + 1 \/ ~IsSpace(t[j])
            /\ \A k \in i..(j - 1) : IsSpace(t[k])

\* The first position at or after i that holds c, Len(t) + 1 if there is none.
FindChar(t, i, c) ==
    IF i > Len(t) THEN i
    ELSE CHOOSE j \in i..(Len(t) + 1) :
            /\ j = Len(t) + 1 \/ t[j] = c
            /\ \A k \in i..(j - 1) : t[k] # c

Slice(t, a, b) == IF a > b THEN <<>> ELSE SubSeq(t, a, b)

NoMatch == [ok |-> FALSE]

\* (warn|info) at position i: the level matched, <<>> if neither.
LevelAt(t, i) ==
    IF StartsWith(t, i, Warn) THEN Warn
    ELSE IF StartsWith(t, i, Info) THEN Info
    ELSE <<>>

\* Start of group 3, ([^}]+), given the end v0 of "component:" and the first
\* closing brace q after it.  The \s* before the group is greedy and takes
\* the leading spaces; if nothing else is left before the brace it gives the
\* last space back, since the group needs one character.
Group3Start(t, v0, q) ==
    LET w == SkipSpace(t, v0)
    IN  IF w < q THEN w ELSE q - 1

\* Mutant: the value group ends at the first comma too, ([^},]+).
Group3EndSoleKey(t, v0) ==
    LET q == FindChar(t, v0, "}")
        c == FindChar(t, v0, ",")
    IN  IF c < q THEN c ELSE q

\* End of group 3, ([^}]+): the position of the first closing brace at or
\* after v0, Len(t) + 1 if there is none.
Group3End(t, v0) == FindChar(t, v0, "}")

\* The pattern
\*   logger\.(warn|info)\(([^,]+),\s*error,\s*\{\s*component:\s*([^}]+)\s*\}\)
\* tried at position i of t.  Every piece has one way to match: group 2
\* cannot hold a comma and must be followed by one, so it ends at the first
\* comma; group 3 cannot hold a closing brace and must be followed by one
\* (the \s* after it takes nothing, the group being greedy), so it ends at
\* the first closing brace; each \s* must take every space before a literal
\* that is no space.
pattern(t, i) ==
    IF ~StartsWith(t, i, LoggerDot) THEN NoMatch
    ELSE
    LET lv == LevelAt(t, i + Len(LoggerDot))
        j  == i + Len(LoggerDot) + Len(lv) + 1     \* start of group 2
        k  == FindChar(t, j, ",")                  \* the comma after group 2
        e  == SkipSpace(t, k + 1)                  \* "error,"
        b  == SkipSpace(t, e + Len(ErrorComma))    \* "{"
        c  == SkipSpace(t, b + 1)                  \* "component:"
        v0 == c + Len(ComponentColon)
        q  == Group3End(t, v0)                     \* "}" after group 3
    IN  IF /\ lv # <<>>
           /\ StartsWith(t, j - 1, <<"(">>)
           /\ k > j
           /\ k <= Len(t)
           /\ StartsWith(t, e, ErrorComma)
           /\ StartsWith(t, b, <<"{">>)
           /\ StartsWith(t, c, ComponentColon)
           /\ q > v0
           /\ StartsWith(t, q, <<"}", ")">>)
        THEN [ok |-> TRUE, start |-> i, end |-> q + 1, g1 |-> lv,
              g2 |-> Slice(t, j, k - 1),
              g3 |-> Slice(t, Group3Start(t, v0, q), q - 1)]
        ELSE NoMatch

\* Mutant: the standalone error argument kept in front of the object.
replacementKeepsError(m) ==
    LoggerDot \o m.g1 \o <<"(">> \o m.g2
        \o <<","," ","e","r","r","o","r",","," ","{"," ","c","o","m","p","o","n","e","n","t",":"," ">>
        \o m.g3 \o <<","," ","e","r","r","o","r"," ","}",")">>

\* The replacement template  logger.\1(\2, { component: \3, error })
\* expanded for the match m.
replacement(m) ==
    LoggerDot \o m.g1 \o <<"(">> \o m.g2
        \o <<","," ","{"," ","c","o","m","p","o","n","e","n","t",":"," ">>
        \o m.g3 \o <<","," ","e","r","r","o","r"," ","}",")">>

\* The scan of re.sub: the first position at or after i where the pattern
\* matches, Len(t) + 1 if there is none.
NextMatch(t, i) ==
    IF i > Len(t) THEN i
    ELSE CHOOSE p \in i..(Len(t) + 1) :
            /\ p = Len(t) + 1 \/ pattern(t, p).ok
            /\ \A k \in i..(p - 1) : ~pattern(t, k).ok

\* re.sub from position i on: the text up to the leftmost match is copied,
\* the match is replaced and the scan goes on after it.
RECURSIVE SubFrom(_, _)
SubFrom(t, i) ==
    LET p == NextMatch(t, i)
    IN  IF p > Len(t) THEN Slice(t, i, Len(t))
        ELSE LET m == pattern(t, p)
             IN  Slice(t, i, p - 1) \o replacement(m) \o SubFrom(t, m.end + 1)

\* Mutant: the text stripped of surrounding spaces before the substitution.
re_sub_stripped(t) ==
    LET a == SkipSpace(t, 1)
        last == IF \E k \in 1..Len(t) : ~IsSpace(t[k])
                THEN CHOOSE k \in 1..Len(t) :
                        /\ ~IsSpace(t[k])
                        /\ \A n \in (k + 1)..Len(t) : IsSpace(t[n])
                ELSE 0
    IN  SubFrom(Slice(t, a, last), 1)

\* re.sub(pattern, replacement, t).
re_sub(t) == SubFrom(t, 1)

\* The matches re.sub finds in t from position i on, in order.
RECURSIVE MatchesFrom(_, _)
MatchesFrom(t, i) ==
    LET p == NextMatch(t, i)
    IN  IF p > Len(t) THEN <<>>
        ELSE LET m == pattern(t, p)
             IN  <<m>> \o MatchesFrom(t, m.end + 1)

Matches(t) == MatchesFrom(t, 1)

\* p occurs somewhere in t.
Occurs(p, t) == \E i \in 1..(Len(t) - Len(p) + 1) : StartsWith(t, i, p)

---------------------------------------------------------------------------
(* The input texts of SpecSub: a text is a run of segments, each a logger  *)
(* call in one of the layouts the script meets, or other source text.      *)

Msg == <<"'","m","'">>
PlainValue == <<"'","X","'">>
ExtraKeyValue == <<"'","c","'",","," ","e","x","t","r","a",":"," ","1">>
ErrorWord == <<"e","r","r","o","r">>
ComponentWord == <<"c","o","m","p","o","n","e","n","t">>
InnerCall ==
    LoggerDot \o Info
        \o <<"(","b",","," ","e","r","r","o","r",","," ","{","c","o","m","p","o","n","e","n","t",":"," ","c","}",")">>

Levels == {Warn, Info, ErrorWord, <<"d","e","b","u","g">>, <<"W","a","r","n">>}
Targeted == {Warn, Info}

\* The places between two tokens of a call, from "logger.<level>(" to ")",
\* where a line break can stand:
\*   1 after "(", 2 before the first comma, 3 after the first comma,
\*   4 between error and its comma, 5 after the second comma, 6 after "{",
\*   7 after "component:", 8 before "}", 9 between "}" and ")",
\*   10 between component and ":".
Slots == 1..10
\* The places where the pattern takes a line break: inside group 2 (1, 2),
\* in a \s* (3, 5, 6, 7) or at the end of group 3 (8).
OpenSlots == {1, 2, 3, 5, 6, 7, 8}
\* The places where the pattern has two literals in a row and takes nothing.
ClosedSlots == Slots \ OpenSlots
\* The layouts with several line breaks that are mixed with other segments:
\* one argument per line with ")" on a line of its own, one argument per
\* line with ")" after "}", and the object literal spread over lines.
BrokenLayouts == {{1, 3, 5, 9}, {1, 3, 5}, {5, 6, 8}}

Call(level, nl, fmt, msg, val) ==
    [kind |-> "call", level |-> level, nl |-> nl, fmt |-> fmt,
     msg |-> msg, val |-> val]
Other(kind) ==
    [kind |-> kind, level |-> Warn, nl |-> {}, fmt |-> "spaced",
     msg |-> "plain", val |-> "plain"]

Segments ==
    {Call(l, {}, "spaced", "plain", "plain") : l \in Levels}
    \cup {Call(Warn, {s}, "spaced", "plain", "plain") : s \in Slots}
    \cup {Call(Warn, b, "spaced", "plain", "plain") : b \in BrokenLayouts}
    \cup {Call(Info, {}, "compact", "plain", "plain"),
          Call(Warn, {}, "spaced", "plain", "extra"),
          Call(Warn, {}, "spaced", "plain", "nested"),
          Call(Warn, {}, "spaced", "nested", "plain"),
          Call(Info, {}, "spaced", "plain", "blank"),
          Call(Warn, {}, "unicode", "plain", "plain")}
    \cup {Other("single"), Other("rewritten"), Other("filler"),
          Other("fillercrlf")}

MsgOf(seg) == IF seg.msg = "nested" THEN InnerCall ELSE Msg
ValueOf(seg) ==
    IF seg.val = "extra" THEN ExtraKeyValue
    ELSE IF seg.val = "nested" THEN InnerCall
    ELSE IF seg.val = "blank" THEN <<" ">>
    ELSE PlainValue

\* What stands at place s of the call seg: a line break if the call breaks
\* there, else nothing (a place inside an argument list that takes no space)
\* or the layout's separator.
Brk(seg, s) == IF s \in seg.nl THEN <<"\n">> ELSE <<>>
Sep(seg, s) ==
    IF s \in seg.nl THEN <<"\n">>
    ELSE IF seg.fmt = "spaced" THEN <<" ">>
    ELSE IF seg.fmt = "unicode" THEN <<VTab, EmSpace>>
    ELSE <<>>

Render(seg) ==
    IF seg.kind = "call" THEN
        LoggerDot \o seg.level \o <<"(">> \o Brk(seg, 1) \o MsgOf(seg)
            \o Brk(seg, 2) \o <<",">> \o Sep(seg, 3) \o ErrorWord
            \o Brk(seg, 4) \o <<",">> \o Sep(seg, 5) \o <<"{">> \o Sep(seg, 6)
            \o ComponentWord \o Brk(seg, 10) \o <<":">>
            \o Sep(seg, 7) \o ValueOf(seg) \o Sep(seg, 8)
            \o <<"}">> \o Brk(seg, 9) \o <<")">>
    ELSE IF seg.kind = "single" THEN
        LoggerDot \o seg.level \o <<"(","a",")",";"," ">>
    ELSE IF seg.kind = "rewritten" THEN
        LoggerDot \o seg.level \o <<"(">> \o Msg
            \o <<","," ","{"," ","c","o","m","p","o","n","e","n","t",":"," ">>
            \o PlainValue \o <<","," ","e","r","r","o","r"," ","}",")">>
    ELSE IF seg.kind = "filler" THEN <<"x"," ","="," ","1",";","\n">>
    ELSE <<"y","(",")",";","\r","\n">>

RECURSIVE RenderAll(_)
RenderAll(ps) ==
    IF ps = <<>> THEN <<>> ELSE Render(Head(ps)) \o RenderAll(Tail(ps))

\* A call with line breaks at any set of places, standing on its own.
BrokenCalls ==
    {Call(Warn, b, "spaced", "plain", "plain") : b \in SUBSET Slots}

PartSeqs ==
    UNION {[1..n -> Segments] : n \in 0..MaxSegs}
        \cup {<<c>> : c \in BrokenCalls}

---------------------------------------------------------------------------
(* SpecSub: the substitution applied to a text, and again to its result.   *)

IdleRun ==
    /\ pc = "off"
    /\ argv = <<>>
    /\ fsMode = "ok"
    /\ linesep = <<"\n">>
    /\ file0 = <<>>
    /\ file = <<>>
    /\ file_path = <<>>
    /\ content = <<>>
    /\ content_fixed = <<>>
    /\ stdout = <<>>
    /\ exit_code = <<>>
    /\ io = <<>>

InitSub ==
    /\ parts \in PartSeqs
    /\ text = RenderAll(parts)
    /\ out = <<>>
    /\ out2 = <<>>
    /\ phase = "input"
    /\ IdleRun

Apply ==
    /\ phase = "input"
    /\ out' = re_sub(text)
    /\ phase' = "once"
    /\ UNCHANGED <<parts, text, out2>>
    /\ UNCHANGED runVars

Reapply ==
    /\ phase = "once"
    /\ out2' = re_sub(out)
    /\ phase' = "twice"
    /\ UNCHANGED <<parts, text, out>>
    /\ UNCHANGED runVars

NextSub == Apply \/ Reapply

SpecSub == InitSub /\ [][NextSub]_vars

---------------------------------------------------------------------------
(* Spec: one run of the script.                                            *)

\* Number of segments a file of Spec is built from.
MaxFileSegs == 1

ScriptName == "fix-all-logger-signatures.py"
\* A printed line is a tuple of the strings it is made of.
UsageLine == <<"Usage: python3 fix-all-logger-signatures.py <file>">>
FixedLine(path) == <<"Fixed: ", path>>

\* The command lines: no argument, or one argument of any value.
ArgValues == {"", "src/app.ts", "--help"}
Argvs == {<<ScriptName>>} \cup {<<ScriptName, a>> : a \in ArgValues}

\* The path on disk: a readable and writable file, no file, a file that
\* cannot be read, a file that cannot be written, a device short of room
\* (or a file size limit): the text may fit in it or not.
FsModes == {"ok", "missing", "unreadable", "readonly", "full"}

\* os.linesep: "\n" on POSIX, "\r\n" on Windows.
Lineseps == {<<"\n">>, <<"\r","\n">>}

FileSegments ==
    {Call(Warn, {}, "spaced", "plain", "plain"),
     Call(Info, {3}, "compact", "plain", "plain"),
     Call(ErrorWord, {}, "spaced", "plain", "plain"),
     Other("filler"), Other("fillercrlf")}
Files == {RenderAll(ps) : ps \in UNION {[1..n -> FileSegments] : n \in 0..MaxFileSegs}}
            \cup {<<"a","\r","b">>}

\* open(file_path, 'r') reads in text mode with universal newlines:
\* "\r\n" and a lone "\r" are read as "\n".
UniversalNewlines(bytes) ==
    LET keep == {k \in 1..Len(bytes) :
                    ~(bytes[k] = "\n" /\ k > 1 /\ bytes[k - 1] = "\r")}
        nth(n) == CHOOSE k \in keep : Cardinality({x \in keep : x < k}) = n - 1
    IN  [n \in 1..Cardinality(keep) |->
            IF bytes[nth(n)] = "\r" THEN "\n" ELSE bytes[nth(n)]]

\* open(file_path, 'w') writes in text mode: "\n" is written as os.linesep.
RECURSIVE TranslateNewlines(_, _)
TranslateNewlines(t, sep) ==
    LET p == FindChar(t, 1, "\n")
    IN  IF p > Len(t) THEN t
        ELSE Slice(t, 1, p - 1) \o sep
                \o TranslateNewlines(Slice(t, p + 1, Len(t)), sep)

\* Mutant: only a missing argument counts, "file_path is None".
IsNone(fp) == fp = <<>>

\* "not file_path": None and the empty string are both false.
Falsy(fp) == IF fp = <<>> THEN TRUE ELSE fp[1] = ""

IdleSub ==
    /\ parts = <<>>
    /\ text = <<>>
    /\ out = <<>>
    /\ out2 = <<>>
    /\ phase = "off"

Init ==
    /\ pc = "args"
    /\ argv \in Argvs
    /\ fsMode \in FsModes
    /\ linesep \in Lineseps
    /\ file0 \in Files
    /\ file = file0
    /\ file_path = <<>>
    /\ content = <<>>
    /\ content_fixed = <<>>
    /\ stdout = <<>>
    /\ exit_code = <<>>
    /\ io = <<>>
    /\ IdleSub

\* file_path = sys.argv[1] if len(sys.argv) > 1 else None; None is <<>>.
GetArg ==
    /\ pc = "args"
    /\ file_path' = IF Len(argv) > 1 THEN <<argv[2]>> ELSE <<>>
    /\ pc' = "check"
    /\ UNCHANGED <<argv, fsMode, linesep, file0, file, content, content_fixed,
                   stdout, exit_code, io>>
    /\ UNCHANGED subVars

\* Mutant: the usage message printed without sys.exit(1).
UsageNoExit ==
    /\ pc = "check"
    /\ Falsy(file_path)
    /\ stdout' = Append(stdout, UsageLine)
    /\ pc' = "read"
    /\ UNCHANGED <<argv, fsMode, linesep, file0, file, file_path, content,
                   content_fixed, exit_code, io>>
    /\ UNCHANGED subVars

\* if not file_path: print usage, sys.exit(1).
UsageExit ==
    /\ pc = "check"
    /\ Falsy(file_path)
    /\ stdout' = Append(stdout, UsageLine)
    /\ exit_code' = <<1>>
    /\ pc' = "exited"
    /\ UNCHANGED <<argv, fsMode, linesep, file0, file, file_path, content,
                   content_fixed, io>>
    /\ UNCHANGED subVars

ArgOk ==
    /\ pc = "check"
    /\ ~Falsy(file_path)
    /\ pc' = "read"
    /\ UNCHANGED <<argv, fsMode, linesep, file0, file, file_path, content,
                   content_fixed, stdout, exit_code, io>>
    /\ UNCHANGED subVars

\* An uncaught exception: the interpreter prints a traceback to standard
\* error and exits with status 1.
Raise ==
    /\ exit_code' = <<1>>
    /\ pc' = "exited"

\* with open(file_path, 'r') as f: content = f.read()
ReadFile ==
    /\ pc = "read"
    /\ fsMode \notin {"missing", "unreadable"}
    /\ content' = UniversalNewlines(file)
    /\ io' = io \o <<"open_r", "read", "close_r">>
    /\ pc' = "sub"
    /\ UNCHANGED <<argv, fsMode, linesep, file0, file, file_path,
                   content_fixed, stdout, exit_code>>
    /\ UNCHANGED subVars

\* open(file_path, 'r') raises FileNotFoundError or PermissionError.
ReadFileFails ==
    /\ pc = "read"
    /\ fsMode \in {"missing", "unreadable"}
    /\ io' = Append(io, "open_r")
    /\ Raise
    /\ UNCHANGED <<argv, fsMode, linesep, file0, file, file_path, content,
                   content_fixed, stdout>>
    /\ UNCHANGED subVars

\* content_fixed = re.sub(pattern, replacement, content)
Substitute ==
    /\ pc = "sub"
    /\ content_fixed' = re_sub(content)
    /\ pc' = "open_w"
    /\ UNCHANGED <<argv, fsMode, linesep, file0, file, file_path, content,
                   stdout, exit_code, io>>
    /\ UNCHANGED subVars

\* open(file_path, 'w') truncates the file.
OpenWrite ==
    /\ pc = "open_w"
    /\ fsMode # "readonly"
    /\ file' = <<>>
    /\ io' = Append(io, "open_w")
    /\ pc' = "write"
    /\ UNCHANGED <<argv, fsMode, linesep, file0, file_path, content,
                   content_fixed, stdout, exit_code>>
    /\ UNCHANGED subVars

\* open(file_path, 'w') raises PermissionError: the file is as it was.
OpenWriteFails ==
    /\ pc = "open_w"
    /\ fsMode = "readonly"
    /\ io' = Append(io, "open_w")
    /\ Raise
    /\ UNCHANGED <<argv, fsMode, linesep, file0, file, file_path, content,
                   content_fixed, stdout>>
    /\ UNCHANGED subVars

\* Mutant: the file written only if the substitution changed the text.
WriteFileIfChanged ==
    /\ pc = "write"
    /\ IF content_fixed = content
       THEN UNCHANGED <<file, io>>
       ELSE /\ file' = TranslateNewlines(content_fixed, linesep)
            /\ io' = io \o <<"write", "close_w">>
    /\ pc' = "print"
    /\ UNCHANGED <<argv, fsMode, linesep, file0, file_path, content,
                   content_fixed, stdout, exit_code>>
    /\ UNCHANGED subVars

\* f.write(content_fixed), and the file closed at the end of the with block.
\* Short of room or not, the device takes the text if it fits: opening the
\* file for writing has freed what it held.
WriteFile ==
    /\ pc = "write"
    /\ file' = TranslateNewlines(content_fixed, linesep)
    /\ io' = io \o <<"write", "close_w">>
    /\ pc' = "print"
    /\ UNCHANGED <<argv, fsMode, linesep, file0, file_path, content,
                   content_fixed, stdout, exit_code>>
    /\ UNCHANGED subVars

\* The write, or the flush when the with block closes the file, raises
\* OSError: the device has taken a part of the text and no more.  The file
\* is closed on the way out of the with block, so both calls are made.
WriteFileFails ==
    /\ pc = "write"
    /\ fsMode = "full"
    /\ \E n \in 0..(Len(TranslateNewlines(content_fixed, linesep)) - 1) :
          file' = Slice(TranslateNewlines(content_fixed, linesep), 1, n)
    /\ io' = io \o <<"write", "close_w">>
    /\ Raise
    /\ UNCHANGED <<argv, fsMode, linesep, file0, file_path, content,
                   content_fixed, stdout>>
    /\ UNCHANGED subVars

\* print(f"Fixed: {file_path}"), and the script ends: exit status 0.
PrintFixed ==
    /\ pc = "print"
    /\ stdout' = Append(stdout, FixedLine(file_path[1]))
    /\ exit_code' = <<0>>
    /\ pc' = "exited"
    /\ UNCHANGED <<argv, fsMode, linesep, file0, file, file_path, content,
                   content_fixed, io>>
    /\ UNCHANGED subVars

Next ==
    \/ GetArg
    \/ UsageExit
    \/ ArgOk
    \/ ReadFile
    \/ ReadFileFails
    \/ Substitute
    \/ OpenWrite
    \/ OpenWriteFails
    \/ WriteFile
    \/ WriteFileFails
    \/ PrintFixed

Spec == Init /\ [][Next]_vars

---------------------------------------------------------------------------
(* Properties of the substitution, checked under SpecSub.                  *)

Applied == phase \in {"once", "twice"}
IsTargetCall(seg) == seg.kind = "call" /\ seg.level \in Targeted
IsFiller(seg) == seg.kind \in {"filler", "fillercrlf"}
\* logger.<level>(<message-expr>, error, { component: <value-expr> })
Canonical(seg) ==
    /\ IsTargetCall(seg)
    /\ seg.nl = {}
    /\ seg.fmt = "spaced"
    /\ seg.msg = "plain"
    /\ seg.val = "plain"
HasExtraKey(seg) == IsTargetCall(seg) /\ seg.val = "extra"
BreaksLine(seg) ==
    IsTargetCall(seg) /\ seg.nl # {} /\ seg.msg = "plain" /\ seg.val = "plain"

\* logger.<level>(<message-expr>, { component: <value-expr>, error }) with the
\* value followed directly by the comma.
DirectRewrite(seg) ==
    LoggerDot \o seg.level \o <<"(">> \o Brk(seg, 1) \o MsgOf(seg)
        \o Brk(seg, 2)
        \o <<","," ","{"," ","c","o","m","p","o","n","e","n","t",":"," ">>
        \o ValueOf(seg) \o <<","," ","e","r","r","o","r"," ","}",")">>

\* The same with what stands between the value and "}" kept after the value.
TrailingRewrite(seg) ==
    LoggerDot \o seg.level \o <<"(">> \o Brk(seg, 1) \o MsgOf(seg)
        \o Brk(seg, 2)
        \o <<","," ","{"," ","c","o","m","p","o","n","e","n","t",":"," ">>
        \o ValueOf(seg) \o Sep(seg, 8)
        \o <<","," ","e","r","r","o","r"," ","}",")">>

RECURSIVE DirectRewriteAll(_)
DirectRewriteAll(ps) ==
    IF ps = <<>> THEN <<>>
    ELSE (IF Canonical(Head(ps)) THEN DirectRewrite(Head(ps))
          ELSE Render(Head(ps))) \o DirectRewriteAll(Tail(ps))

\* Some match of the pattern in t has a value group that holds the opening
\* of a warn or info call.
NestedInValue(t) ==
    LET ms == Matches(t)
    IN  \E n \in DOMAIN ms :
            \/ Occurs(LoggerDot \o Warn \o <<"(">>, ms[n].g3)
            \/ Occurs(LoggerDot \o Info \o <<"(">>, ms[n].g3)

\* C1 (as claimed): in a text of canonical warn/info call sites and other
\* text without logger calls, each call site
\* logger.<level>(<msg>, error, { component: <value> }) comes out as exactly
\* logger.<level>(<msg>, { component: <value>, error }), the value followed
\* directly by the comma, and the rest of the text is unchanged.
C1_ExactRewrite ==
    (Applied /\ \A k \in DOMAIN parts :
                    Canonical(parts[k]) \/ IsFiller(parts[k]))
        => out = DirectRewriteAll(parts)

\* C2 (as claimed): a warn/info call whose object literal holds a key in
\* addition to component is left textually unchanged.
C2_ExtraKeyUnchanged ==
    Applied => \A k \in DOMAIN parts :
                  HasExtraKey(parts[k]) => Occurs(Render(parts[k]), out)

\* C2 (amended): a warn/info call whose object literal holds a key in
\* addition to component is rewritten like any other: everything between
\* "component:" and the closing brace is kept, and ", error" is put after it.
C2_ExtraKeyRewritten ==
    Applied => \A k \in DOMAIN parts :
                  HasExtraKey(parts[k]) =>
                      /\ Occurs(TrailingRewrite(parts[k]), out)
                      /\ ~Occurs(Render(parts[k]), out)

C2_Witness ==
    /\ phase = "once"
    /\ \E k \in DOMAIN parts : HasExtraKey(parts[k])
    /\ out # text

\* C3 (as claimed): the substitution is idempotent on every text, nested
\* and adjacent call sites included.
C3_Idempotent == phase = "twice" => out2 = out

\* C3 (amended): the substitution is idempotent on every text in which no
\* matched call site's value holds the opening of a warn or info call.
C3_IdempotentUnlessNestedValue ==
    (phase = "twice" /\ ~NestedInValue(text)) => out2 = out

C3_Witness ==
    /\ phase = "twice"
    /\ Len(parts) >= 2
    /\ ~NestedInValue(text)
    /\ \E k \in DOMAIN parts : parts[k].msg = "nested"
    /\ out # text
    /\ out2 = out

\* C4 (as claimed): a logger call whose level is not warn or info is left
\* textually unchanged, whatever logger calls precede or follow it.
C4_OtherLevelsUnchanged ==
    Applied => \A k \in DOMAIN parts :
                  (parts[k].kind = "call" /\ parts[k].level \notin Targeted)
                      => Occurs(Render(parts[k]), out)

\* C5 (as claimed): a call site of the targeted shape with a line break
\* anywhere between "logger.<level>(" and the closing ")" is left unmodified.
C5_MultiLineSkipped ==
    Applied => \A k \in DOMAIN parts :
                  BreaksLine(parts[k]) => Occurs(Render(parts[k]), out)

\* C5 (amended): a call site of the targeted shape with line breaks between
\* its tokens, at any number of places from "logger.<level>(" to ")", is left
\* unmodified if and only if one of the breaks stands between error and its
\* comma, between component and ":" or between "}" and ")". With every break
\* at another place (after "(", before the first comma, after either comma,
\* after "{", after "component:", before "}") it is rewritten: the breaks
\* around the message and before "}" are kept, the others become the
\* replacement's single spaces.
C5_LineBreakRule ==
    Applied => \A k \in DOMAIN parts :
                  BreaksLine(parts[k]) =>
                      IF parts[k].nl \cap ClosedSlots = {}
                      THEN /\ Occurs(TrailingRewrite(parts[k]), out)
                           /\ ~Occurs(Render(parts[k]), out)
                      ELSE Occurs(Render(parts[k]), out)

C5_Witness ==
    /\ phase = "once"
    /\ \E k \in DOMAIN parts :
          /\ BreaksLine(parts[k])
          /\ {1, 3, 5} \subseteq parts[k].nl
          /\ parts[k].nl \cap ClosedSlots = {}
    /\ out # text

\* C9: on a text in which the pattern has no match the substitution is the
\* identity.
C9_NoMatchIdentity == (Applied /\ Matches(text) = <<>>) => out = text

C9_Witness ==
    /\ phase = "once"
    /\ Matches(text) = <<>>
    /\ Occurs(LoggerDot, text)
    /\ \E k \in DOMAIN parts : IsFiller(parts[k])
    /\ out = text

---------------------------------------------------------------------------
(* Properties of a run, checked under Spec.                                *)

Range(f) == {f[x] : x \in DOMAIN f}
IsPrefix(a, b) == Len(a) <= Len(b) /\ a = Slice(b, 1, Len(a))
FullIO == <<"open_r", "read", "close_r", "open_w", "write", "close_w">>
NoArgument == Len(argv) = 1
EmptyArgument == IF Len(argv) > 1 THEN argv[2] = "" ELSE FALSE
UsagePrinted == UsageLine \in Range(stdout)
FixedPrinted == \E n \in DOMAIN stdout : stdout[n][1] = "Fixed: "

\* C6: run with no argument, the script prints the usage message, exits with
\* status 1, calls no file operation, leaves the file as it was and never
\* prints "Fixed:".
C6_NoArgumentNoIO ==
    NoArgument =>
        /\ io = <<>>
        /\ file = file0
        /\ ~FixedPrinted
        /\ pc \in {"args", "check", "exited"}
        /\ pc = "exited" => (stdout = <<UsageLine>> /\ exit_code = <<1>>)

C6_Witness ==
    /\ NoArgument
    /\ pc = "exited"
    /\ exit_code = <<1>>
    /\ io = <<>>

\* C7 (as claimed): the usage error occurs if and only if no argument is
\* given; any argument supplied, the empty string included, is opened.
C7_UsageIffNoArgument ==
    pc = "exited" => (UsagePrinted <=> NoArgument)

\* C7 (amended): the usage error with exit status 1 occurs if and only if no
\* argument is given or the first argument is the empty string; any other
\* first argument, whatever its value, is opened as the file path.
C7_UsageIffNoneOrEmpty ==
    /\ pc = "exited" =>
          (UsagePrinted <=> (NoArgument \/ EmptyArgument))
    /\ (pc \notin {"args", "check"} /\ ~NoArgument /\ ~EmptyArgument) =>
          /\ ~UsagePrinted
          /\ file_path = <<argv[2]>>
          /\ pc # "read" => (io # <<>> /\ io[1] = "open_r")

C7_Witness ==
    /\ EmptyArgument
    /\ pc = "exited"
    /\ stdout = <<UsageLine>>
    /\ exit_code = <<1>>
    /\ io = <<>>

\* C8 (as claimed): after a successful run the file holds its former bytes
\* with only the matched regions replaced, line endings included; with no
\* match it is identical to the file read.
C8_BytesPreserved ==
    (pc = "exited" /\ exit_code = <<0>>) => file = re_sub(file0)

\* C10: in a run with an argument the file operations are called at most
\* once each and in the order read, write; "Fixed: <path>" is printed last
\* and only after all of them, with exit status 0, whatever the number of
\* matches; a failed read or write ends the run with no "Fixed:" line, and a
\* failed read leaves the file as it was.
C10_RunOrder ==
    /\ IsPrefix(io, FullIO)
    /\ FixedPrinted =>
          /\ pc = "exited"
          /\ exit_code = <<0>>
          /\ io = FullIO
          /\ stdout = <<FixedLine(argv[2])>>
    /\ (pc = "exited" /\ ~Falsy(file_path)) =>
          \/ /\ exit_code = <<0>>
             /\ FixedPrinted
             /\ io = FullIO
             /\ file = TranslateNewlines(re_sub(content), linesep)
          \/ /\ exit_code = <<1>>
             /\ ~FixedPrinted
             /\ stdout = <<>>
             /\ "read" \in Range(io) => fsMode \in {"readonly", "full"}
    /\ (pc = "exited" /\ ~Falsy(file_path) /\ fsMode = "ok") =>
          exit_code = <<0>>
    /\ (pc = "exited" /\ "read" \notin Range(io)) => file = file0

C10_Witness ==
    /\ pc = "exited"
    /\ exit_code = <<0>>
    /\ content # <<>>
    /\ content_fixed = content
    /\ io = FullIO
    /\ FixedPrinted

=============================================================================
